---- MODULE Spec2Model ----
(***************************************************************************)
(* Model of the sidelink capture tool (second program of                   *)
(* src/lib/examples/LTE-V_rx.c): the device manager, the per-device DMRS   *)
(* matrices, the receive loop of main(), the shutdown flush and the        *)
(* SIGINT handler.                                                         *)
(*                                                                         *)
(* A DMRS row (num_samples complex values) is one token; the decoder's     *)
(* row for subframe nf is the token nf, so rows of different subframes are *)
(* distinguishable.  The heap of dmrs_matrix_t objects is explicit: an     *)
(* object is "unused", "live" or "freed", and a freed object keeps its     *)
(* last contents so that a read through a dangling pointer has the         *)
(* outcomes a build can show (stale value, garbage value, crash).          *)
(***************************************************************************)
EXTENDS Integers, Sequences, FiniteSets, TLC

\* ---------------------------------------------------------------- bounds
\* subframes a run receives at most; the rntis the decoder reports
MaxSubframes == 3
MaxRnti == 2
\* args_default: initial_matrix_capacity = 1000 and
\* initial_device_capacity = 10, scaled down so that both growths happen
InitialMatrixCapacity == 1
InitialDeviceCapacity == 1
\* the matrices expand_dmrs_matrix is applied to on its own
MaxGrowCapacity == 3
MaxRowValue == 2
\* uint32_t is WordBits wide, scaled down from 32 so that a matrix grown a
\* few times reaches the wrap of capacity * num_samples; the widths of a
\* row that such a matrix is created with
WordBits == 5
MaxSamples == 3
\* subframes a run of the transmit driver sends at most: more than ten, so
\* that pssch_cfg.sf_idx wraps
MaxTxSubframes == 12

\* ------------------------------------------------------------- constants
NULL == 0
\* chest.M_sc_rs, the width of a row; a row is one token
M_sc_rs == 1

RNTIs == 1..MaxRnti
Addrs == 1..(MaxSubframes + 1)
Stores == 1..(MaxSubframes + 2)
NofSubframesChoices == {-1} \cup (0..MaxSubframes)
SaveOutcomes == {"written", "failed"}

VARIABLES
  pc,             \* position of main()
  go_exit,        \* volatile bool go_exit
  nof_subframes,  \* prog_args.nof_subframes
  nf,             \* int nf
  manager,        \* device_manager_t
  heap,           \* the dmrs_matrix_t objects, by address
  detected_rnti,  \* local of the loop body
  matrix,         \* local of the loop body (address or NULL)
  i,              \* index of the shutdown flush loop
  arrived,        \* history: per rnti, the rows handed to get_or_create_matrix
  persist_log,    \* history: the calls that reached the MAT writer
  hist,           \* history: which failures / recoveries have happened
  log,            \* the last line log_message wrote to the log file
  tx              \* the transmit driver: pssch_cfg.sf_idx, the radio, cleanup

vars == <<pc, go_exit, nof_subframes, nf, manager, heap, detected_rnti,
          matrix, i, arrived, persist_log, hist, log, tx>>

\* ------------------------------------------------------ pure operations
\* uint32_t arithmetic
Uint32Modulus == 2 ^ WordBits

Mul32(x, y) == (x * y) % Uint32Modulus

Min(S) == CHOOSE x \in S : \A y \in S : x <= y

\* the row the decoder delivers for subframe n
Sample(n) == n

UnusedMatrix ==
  [state |-> "unused", rnti |-> 0, dmrs_matrix |-> NULL, num_frames |-> 0,
   num_samples |-> 0, capacity |-> 0, rows |-> <<>>, alloc |-> 0]

\* init_device_manager, both callocs succeeding
init_device_manager(initial_capacity) ==
  [matrices |-> [k \in 1..initial_capacity |-> NULL],
   num_devices |-> 0,
   capacity |-> initial_capacity]

\* the capacity is doubled before realloc is known to have succeeded
expand_device_manager_eager(mgr, ok) ==
  IF ok
    THEN [mgr EXCEPT
            !.matrices = [k \in 1..Mul32(mgr.capacity, 2) |->
                            IF k <= mgr.capacity THEN mgr.matrices[k]
                                                 ELSE NULL],
            !.capacity = Mul32(mgr.capacity, 2)]
    ELSE [mgr EXCEPT !.capacity = Mul32(mgr.capacity, 2)]

\* expand_device_manager: realloc to twice the capacity, new slots zeroed
expand_device_manager(mgr, ok) ==
  IF ok
    THEN [mgr EXCEPT
            !.matrices = [k \in 1..Mul32(mgr.capacity, 2) |->
                            IF k <= mgr.capacity THEN mgr.matrices[k]
                                                 ELSE NULL],
            !.capacity = Mul32(mgr.capacity, 2)]
    ELSE mgr

\* init_dmrs_matrix, both allocations succeeding; store is the new storage,
\* alloc the number of values srsran_vec_cf_malloc was asked for
init_dmrs_matrix(rnti, num_samples, initial_capacity, store) ==
  [state |-> "live", rnti |-> rnti, dmrs_matrix |-> store, num_frames |-> 0,
   num_samples |-> num_samples, capacity |-> initial_capacity, rows |-> <<>>,
   alloc |-> Mul32(initial_capacity, num_samples)]

\* free_dmrs_matrix: storage and object are released, the memory keeps its bits
free_dmrs_matrix(m) == [m EXCEPT !.state = "freed"]

\* the memcpy of expand_dmrs_matrix: the first num_frames rows
CopyRows(m) == SubSeq(m.rows, 1, m.num_frames)

\* the new capacity is the old one plus one instead of twice the old one
expand_dmrs_matrix_plus1(m, ok, store) ==
  IF ok
    THEN [m EXCEPT !.rows = CopyRows(m),
                   !.dmrs_matrix = store,
                   !.alloc = Mul32(m.capacity + 1, m.num_samples),
                   !.capacity = m.capacity + 1]
    ELSE m

\* the capacity is doubled before the allocation is known to have succeeded
expand_dmrs_matrix_eager(m, ok, store) ==
  IF ok
    THEN [m EXCEPT !.rows = CopyRows(m),
                   !.dmrs_matrix = store,
                   !.alloc = Mul32(Mul32(m.capacity, 2), m.num_samples),
                   !.capacity = Mul32(m.capacity, 2)]
    ELSE [m EXCEPT !.capacity = Mul32(m.capacity, 2)]

\* expand_dmrs_matrix: ok is the outcome of srsran_vec_cf_malloc, asked for
\* new_capacity * num_samples values, both products in uint32_t
expand_dmrs_matrix(m, ok, store) ==
  IF ok
    THEN [m EXCEPT !.rows = CopyRows(m),
                   !.dmrs_matrix = store,
                   !.alloc = Mul32(Mul32(m.capacity, 2), m.num_samples),
                   !.capacity = Mul32(m.capacity, 2)]
    ELSE m

\* the row lands in front of the stored rows instead of behind them
AppendRow_front(m, row) ==
  [m EXCEPT !.rows = <<row>> \o SubSeq(m.rows, 1, m.num_frames),
            !.num_frames = m.num_frames + 1]

\* the memcpy and num_frames++ of the loop body
AppendRow(m, row) ==
  [m EXCEPT !.rows = SubSeq(m.rows, 1, m.num_frames) \o <<row>>,
            !.num_frames = m.num_frames + 1]

\* a float of the MAT file: the real or the imaginary part of a sample
crealf(x) == 2 * x
cimagf(x) == 2 * x + 1

\* the temporary buffer of save_dmrs_matrix: the num_frames * num_samples
\* complex values of the matrix as interleaved real / imaginary floats
\* (a row is one value, M_sc_rs = 1)
temp_data(m) ==
  [j \in 1..(2 * m.num_frames * m.num_samples) |->
     IF j % 2 = 1 THEN crealf(m.rows[(j + 1) \div 2])
                  ELSE cimagf(m.rows[j \div 2])]

\* Mat_VarCreate("dmrs_matrix", MAT_C_SINGLE, MAT_T_SINGLE, 2, dims, data, 0):
\* a real variable of dims[1] * dims[2] floats copied from the front of data
Mat_VarCreate(dims, data) ==
  [dims |-> dims, data |-> SubSeq(data, 1, dims[1] * dims[2])]

\* the file name snprintf builds from output_dir and the rnti in hexadecimal
\* (output_dir is the same for the whole run)
MatFileName(rnti) == <<"dmrs_rnti_0x", rnti, ".mat">>

\* save_dmrs_matrix: the call it makes on the MAT writer (none when empty);
\* a is the pointer it was given, at is where main() called it from; rows
\* is the region of the matrix it reads, var the variable it writes when
\* the file, the temporary buffer and the variable can all be created
save_dmrs_matrix(a, m, outcome, at) ==
  IF a = NULL \/ m.dmrs_matrix = NULL \/ m.num_frames = 0
    THEN <<>>
    ELSE << [matrix |-> a,
             rnti |-> m.rnti,
             rows |-> SubSeq(m.rows, 1, m.num_frames),
             num_samples |-> m.num_samples,
             filename |-> MatFileName(m.rnti),
             var |-> Mat_VarCreate(<<m.num_frames, m.num_samples>>,
                                   temp_data(m)),
             outcome |-> outcome,
             at |-> at] >>

\* a line of the log file
LogLine(kind, n, rnti, frames) ==
  [kind |-> kind, nf |-> n, rnti |-> rnti, num_frames |-> frames]

\* ------------------------------------------------------ state helpers
NoManager == [matrices |-> <<>>, num_devices |-> 0, capacity |-> 0]

\* the transmit driver's state while the capture tool is the program run
NoTx == [sf_idx |-> 0, handed |-> 0, sent |-> 0, released |-> FALSE]

NoHist == [grow_failed |-> FALSE, lookup_failed |-> FALSE, recovering |-> FALSE]

Slots == 1..manager.num_devices

SlotAddr(k) == manager.matrices[k]

\* slot k holds a live matrix of this rnti: the scan returns here at the latest
DefMatch(k, rnti) ==
  /\ SlotAddr(k) # NULL
  /\ heap[SlotAddr(k)].state = "live"
  /\ heap[SlotAddr(k)].rnti = rnti

\* slot k holds a pointer to a freed matrix: reading ->rnti is undefined
Dangling(k) == SlotAddr(k) # NULL /\ heap[SlotAddr(k)].state = "freed"

\* the scan of get_or_create_matrix gets as far as slot k
CanReach(k, rnti) == \A j \in 1..(k - 1) : ~DefMatch(j, rnti)

\* slots the scan may return
FoundSlots(rnti) ==
  {k \in Slots : CanReach(k, rnti) /\ (DefMatch(k, rnti) \/ Dangling(k))}

\* the scan may fall through to the creation part
NotFound(rnti) == \A k \in Slots : ~DefMatch(k, rnti)

\* the scan reads a freed object
ScanReadsFreed(rnti) == \E k \in Slots : Dangling(k) /\ CanReach(k, rnti)

\* addresses calloc may return: a fresh one, or one that was freed
AllocAddrs ==
  LET unused == {a \in Addrs : heap[a].state = "unused"}
      freed  == {a \in Addrs : heap[a].state = "freed"}
  IN  (IF unused = {} THEN {} ELSE {Min(unused)}) \cup freed

\* a storage block no live matrix owns
NewStore ==
  Min({s \in Stores :
         \A a \in Addrs : heap[a].state = "live" => heap[a].dmrs_matrix # s})

\* the loop body is over: its locals die, nf++ and back to the loop test
EndIteration ==
  /\ detected_rnti' = 0
  /\ matrix' = NULL
  /\ nf' = nf + 1
  /\ pc' = "test"

\* --------------------------------------------------------------- Init
Init ==
  /\ pc = "start"
  /\ go_exit = FALSE
  /\ nof_subframes \in NofSubframesChoices
  /\ nf = 0
  /\ manager = NoManager
  /\ heap = [a \in Addrs |-> UnusedMatrix]
  /\ detected_rnti = 0
  /\ matrix = NULL
  /\ i = 0
  /\ arrived = [r \in RNTIs |-> <<>>]
  /\ persist_log = <<>>
  /\ hist = NoHist
  /\ log = LogLine("none", 0, 0, 0)
  /\ tx = NoTx

\* ------------------------------------------------------------ actions
\* main(): init_device_manager succeeds
Startup ==
  /\ pc = "start"
  /\ manager' = init_device_manager(InitialDeviceCapacity)
  /\ pc' = "test"
  /\ log' = LogLine("start", 0, 0, 0)
  /\ UNCHANGED <<tx, go_exit, nof_subframes, nf, heap, detected_rnti, matrix, i,
                 arrived, persist_log, hist>>

\* main(): init_device_manager returns NULL, exit(-1)
StartupFails ==
  /\ pc = "start"
  /\ pc' = "aborted"
  /\ UNCHANGED <<tx, go_exit, nof_subframes, nf, manager, heap, detected_rnti,
                 matrix, i, arrived, persist_log, hist, log>>

\* the handler starts the shutdown flush itself, wherever main() is
sig_int_handler_flushes ==
  /\ pc \notin {"start", "flush", "free", "done", "crashed", "aborted"}
  /\ go_exit' = TRUE
  /\ pc' = "flush"
  /\ i' = 0
  /\ UNCHANGED <<tx, nof_subframes, nf, manager, heap, detected_rnti, matrix,
                 arrived, persist_log, hist, log>>

\* sig_int_handler
sig_int_handler ==
  /\ pc \notin {"done", "crashed", "aborted"}
  /\ go_exit' = TRUE
  /\ UNCHANGED <<tx, pc, nof_subframes, nf, manager, heap, detected_rnti, matrix,
                 i, arrived, persist_log, hist, log>>

\* the while condition of the receive loop
LoopCond == (nf < nof_subframes \/ nof_subframes = -1) /\ ~go_exit

LoopTest ==
  /\ pc = "test"
  /\ IF LoopCond THEN pc' = "recv" /\ i' = i
                 ELSE pc' = "flush" /\ i' = 0
  /\ UNCHANGED <<tx, go_exit, nof_subframes, nf, manager, heap, detected_rnti,
                 matrix, arrived, persist_log, hist, log>>

\* srsran_rf_recv returns, srsran_pscch_decode fails
DecodeFails ==
  /\ pc = "recv"
  /\ nf < MaxSubframes
  /\ EndIteration
  /\ log' = LogLine("pscch_failed", nf, 0, 0)
  /\ UNCHANGED <<tx, go_exit, nof_subframes, manager, heap, i, arrived,
                 persist_log, hist>>

\* the row of the failed extraction is appended to the first matrix anyway
DmrsFails_appends ==
  /\ pc = "recv"
  /\ nf < MaxSubframes
  /\ \E r \in RNTIs : log' = LogLine("dmrs_failed", nf, r, 0)
  /\ EndIteration
  /\ heap' = IF manager.num_devices > 0
               THEN [heap EXCEPT ![SlotAddr(1)] = AppendRow(@, Sample(nf))]
               ELSE heap
  /\ UNCHANGED <<tx, go_exit, nof_subframes, manager, i, arrived, persist_log,
                 hist>>

\* srsran_pscch_decode succeeds, srsran_chest_sl_pssch_get_dmrs fails
DmrsFails ==
  /\ pc = "recv"
  /\ nf < MaxSubframes
  /\ \E r \in RNTIs : log' = LogLine("dmrs_failed", nf, r, 0)
  /\ EndIteration
  /\ UNCHANGED <<tx, go_exit, nof_subframes, manager, heap, i, arrived,
                 persist_log, hist>>

\* both succeed: a decode event (detected_rnti, dmrs_received)
Receive ==
  /\ pc = "recv"
  /\ nf < MaxSubframes
  /\ \E r \in RNTIs :
       /\ detected_rnti' = r
       /\ arrived' = [arrived EXCEPT ![r] = Append(@, Sample(nf))]
  /\ pc' = "lookup"
  /\ UNCHANGED <<tx, go_exit, nof_subframes, nf, manager, heap, matrix, i,
                 persist_log, hist, log>>

\* where main() goes with a non-NULL matrix
AfterLookup == IF pc = "lookup" THEN "grow" ELSE "append"

\* the manager is grown only once num_devices has passed the capacity
ManagerFull_late(mgr) ==
  mgr.num_devices > mgr.capacity

\* get_or_create_matrix: the test that sends it to expand_device_manager
ManagerFull(mgr) ==
  mgr.num_devices >= mgr.capacity

\* get_or_create_matrix: the scan returns slot k
LookupFound ==
  /\ pc \in {"lookup", "relookup"}
  /\ \E k \in FoundSlots(detected_rnti) : matrix' = SlotAddr(k)
  /\ pc' = AfterLookup
  /\ UNCHANGED <<tx, go_exit, nof_subframes, nf, manager, heap, detected_rnti, i,
                 arrived, persist_log, hist, log>>

\* get_or_create_matrix: no slot matches, a matrix is created and registered
LookupCreate ==
  /\ pc \in {"lookup", "relookup"}
  /\ NotFound(detected_rnti)
  /\ \E a \in AllocAddrs :
       LET mgr1 == expand_device_manager(manager, ManagerFull(manager))
       IN  /\ heap' = [heap EXCEPT ![a] =
                         init_dmrs_matrix(detected_rnti, M_sc_rs,
                                          InitialMatrixCapacity, NewStore)]
           /\ manager' = [mgr1 EXCEPT
                            !.matrices[mgr1.num_devices + 1] = a,
                            !.num_devices = mgr1.num_devices + 1]
           /\ matrix' = a
  /\ pc' = AfterLookup
  /\ UNCHANGED <<tx, go_exit, nof_subframes, nf, detected_rnti, i, arrived,
                 persist_log, hist, log>>

\* get_or_create_matrix returns NULL because expand_device_manager failed
LookupExpandFails ==
  /\ pc \in {"lookup", "relookup"}
  /\ NotFound(detected_rnti)
  /\ ManagerFull(manager)
  /\ manager' = expand_device_manager(manager, FALSE)
  /\ hist' = [hist EXCEPT !.lookup_failed = TRUE, !.recovering = FALSE]
  /\ EndIteration
  /\ UNCHANGED <<tx, go_exit, nof_subframes, heap, i, arrived, persist_log, log>>

\* get_or_create_matrix returns NULL because init_dmrs_matrix failed
LookupInitFails ==
  /\ pc \in {"lookup", "relookup"}
  /\ NotFound(detected_rnti)
  /\ manager' = expand_device_manager(manager, ManagerFull(manager))
  /\ hist' = [hist EXCEPT !.lookup_failed = TRUE, !.recovering = FALSE]
  /\ EndIteration
  /\ UNCHANGED <<tx, go_exit, nof_subframes, heap, i, arrived, persist_log, log>>

\* main(): the matrix has room, no growth
NotFull ==
  /\ pc = "grow"
  /\ heap[matrix].num_frames < heap[matrix].capacity
  /\ pc' = "append"
  /\ UNCHANGED <<tx, go_exit, nof_subframes, nf, manager, heap, detected_rnti,
                 matrix, i, arrived, persist_log, hist, log>>

\* main(): the matrix is full and expand_dmrs_matrix succeeds
ExpandOk ==
  /\ pc = "grow"
  /\ heap[matrix].num_frames >= heap[matrix].capacity
  /\ heap' = [heap EXCEPT ![matrix] = expand_dmrs_matrix(@, TRUE, NewStore)]
  /\ pc' = "append"
  /\ UNCHANGED <<tx, go_exit, nof_subframes, nf, manager, detected_rnti, matrix,
                 i, arrived, persist_log, hist, log>>

\* main(): the matrix is full and expand_dmrs_matrix fails
ExpandFails ==
  /\ pc = "grow"
  /\ heap[matrix].num_frames >= heap[matrix].capacity
  /\ heap' = [heap EXCEPT ![matrix] = expand_dmrs_matrix(@, FALSE, NewStore)]
  /\ hist' = [hist EXCEPT !.grow_failed = TRUE]
  /\ pc' = "recover"
  /\ UNCHANGED <<tx, go_exit, nof_subframes, nf, manager, detected_rnti, matrix,
                 i, arrived, persist_log, log>>

\* main(): after the failed growth, save_dmrs_matrix then free_dmrs_matrix;
\* the slot of the manager keeps the pointer
Recover ==
  /\ pc = "recover"
  /\ \E o \in SaveOutcomes :
       persist_log' =
         persist_log \o save_dmrs_matrix(matrix, heap[matrix], o, pc)
  /\ heap' = [heap EXCEPT ![matrix] = free_dmrs_matrix(@)]
  /\ hist' = [hist EXCEPT !.recovering = TRUE]
  /\ pc' = "relookup"
  /\ UNCHANGED <<tx, go_exit, nof_subframes, nf, manager, detected_rnti, matrix,
                 i, arrived, log>>

\* main(): the memcpy of the row, num_frames++, the log line, nf++
AppendSample ==
  /\ pc = "append"
  /\ heap' = [heap EXCEPT ![matrix] = AppendRow(@, Sample(nf))]
  /\ hist' = [hist EXCEPT !.recovering = FALSE]
  /\ EndIteration
  /\ log' = LogLine("dmrs_ok", nf, detected_rnti, heap'[matrix].num_frames)
  /\ UNCHANGED <<tx, go_exit, nof_subframes, manager, i, arrived, persist_log>>

\* main(): one round of the shutdown loop, save_dmrs_matrix on slot i
FlushSlot ==
  /\ pc = "flush"
  /\ i < manager.num_devices
  /\ \E o \in SaveOutcomes :
       persist_log' = persist_log \o
         (IF SlotAddr(i + 1) # NULL
            THEN save_dmrs_matrix(SlotAddr(i + 1), heap[SlotAddr(i + 1)],
                                  o, pc)
            ELSE <<>>)
  /\ i' = i + 1
  /\ UNCHANGED <<tx, pc, go_exit, nof_subframes, nf, manager, heap, detected_rnti,
                 matrix, arrived, hist, log>>

\* main(): one round of the shutdown loop on a slot whose matrix was freed,
\* when the freed memory reads as dmrs_matrix = NULL or num_frames = 0:
\* save_dmrs_matrix returns at once
FlushSlotReadsZero ==
  /\ pc = "flush"
  /\ i < manager.num_devices
  /\ Dangling(i + 1)
  /\ i' = i + 1
  /\ UNCHANGED <<tx, pc, go_exit, nof_subframes, nf, manager, heap, detected_rnti,
                 matrix, arrived, persist_log, hist, log>>

\* main(): the shutdown loop is over
FlushDone ==
  /\ pc = "flush"
  /\ i >= manager.num_devices
  /\ pc' = "free"
  /\ log' = LogLine("end", nf, 0, 0)
  /\ UNCHANGED <<tx, go_exit, nof_subframes, nf, manager, heap, detected_rnti,
                 matrix, i, arrived, persist_log, hist>>

\* free_device_manager and exit(0)
free_device_manager ==
  /\ pc = "free"
  /\ heap' = [a \in Addrs |->
                IF \E k \in Slots : SlotAddr(k) = a
                  THEN free_dmrs_matrix(heap[a]) ELSE heap[a]]
  /\ manager' = NoManager
  /\ pc' = "done"
  /\ UNCHANGED <<tx, go_exit, nof_subframes, nf, detected_rnti, matrix, i,
                 arrived, persist_log, hist, log>>

\* the step main() is about to take reads, writes or frees a freed object
TouchesFreed ==
  \/ pc \in {"lookup", "relookup"} /\ ScanReadsFreed(detected_rnti)
  \/ pc \in {"grow", "recover", "append"} /\ heap[matrix].state = "freed"
  \/ pc = "flush" /\ i < manager.num_devices /\ Dangling(i + 1)
  \/ pc = "free" /\ \E k \in Slots :
                      \/ Dangling(k)
                      \/ \E j \in Slots : j # k /\ SlotAddr(j) = SlotAddr(k)

\* one outcome of such a step: the process dies (SIGSEGV, allocator abort)
Segfault ==
  /\ TouchesFreed
  /\ pc' = "crashed"
  /\ UNCHANGED <<tx, go_exit, nof_subframes, nf, manager, heap, detected_rnti,
                 matrix, i, arrived, persist_log, hist, log>>

Next ==
  \/ Startup
  \/ StartupFails
  \/ sig_int_handler
  \/ LoopTest
  \/ DecodeFails
  \/ DmrsFails
  \/ Receive
  \/ LookupFound
  \/ LookupCreate
  \/ LookupExpandFails
  \/ LookupInitFails
  \/ NotFull
  \/ ExpandOk
  \/ ExpandFails
  \/ Recover
  \/ AppendSample
  \/ FlushSlot
  \/ FlushSlotReadsZero
  \/ FlushDone
  \/ free_device_manager
  \/ Segfault

Spec == Init /\ [][Next]_vars

TypeOK ==
  /\ pc \in {"start", "aborted", "test", "recv", "lookup", "grow", "recover",
             "relookup", "append", "flush", "free", "done", "crashed"}
  /\ go_exit \in BOOLEAN
  /\ nf \in 0..MaxSubframes
  /\ matrix \in {NULL} \cup Addrs

\* ------------------------------------------------- claim vocabulary
\* the slots of the manager whose matrix carries this rnti
SlotsOf(r) == {k \in Slots : SlotAddr(k) # NULL /\ heap[SlotAddr(k)].rnti = r}

\* the rows a matrix holds
FilledRows(m) == SubSeq(m.rows, 1, m.num_frames)

\* main() is between two iterations of the receive loop or past the loop,
\* with the manager still allocated
BetweenEvents == pc \in {"test", "recv", "flush", "free"}

NoGrowthOrLookupFailure == ~hist.grow_failed /\ ~hist.lookup_failed

\* C1: as long as neither expand_dmrs_matrix nor get_or_create_matrix has
\* failed, after each processed event every device that sent N samples has
\* exactly one live matrix, it holds N rows, row i is the i-th sample that
\* arrived for the device, and nothing was persisted before the loop ended.
C1_RowsAreArrivals ==
  (BetweenEvents /\ NoGrowthOrLookupFailure) =>
    /\ \A r \in RNTIs :
         IF arrived[r] = <<>>
           THEN SlotsOf(r) = {}
           ELSE /\ Cardinality(SlotsOf(r)) = 1
                /\ \A k \in SlotsOf(r) :
                     /\ heap[SlotAddr(k)].state = "live"
                     /\ heap[SlotAddr(k)].num_frames = Len(arrived[r])
                     /\ FilledRows(heap[SlotAddr(k)]) = arrived[r]
    /\ (pc \in {"test", "recv"} => persist_log = <<>>)

\* three samples of one device went through two growths and sit in order
C1_Witness ==
  /\ pc = "flush"
  /\ NoGrowthOrLookupFailure
  /\ \E r \in RNTIs :
       /\ Len(arrived[r]) >= 3
       /\ \E k \in SlotsOf(r) :
            /\ heap[SlotAddr(k)].capacity > InitialMatrixCapacity
            /\ FilledRows(heap[SlotAddr(k)]) = arrived[r]

RECURSIVE RowsPersistedFor(_, _)
\* the rows of the calls of the log for rnti r, concatenated in call order
RowsPersistedFor(plog, r) ==
  IF plog = <<>>
    THEN <<>>
    ELSE (IF Head(plog).rnti = r THEN Head(plog).rows ELSE <<>>)
           \o RowsPersistedFor(Tail(plog), r)

AllPersistsWritten ==
  \A n \in 1..Len(persist_log) : persist_log[n].outcome = "written"

\* C2: when main() has terminated, no lookup failed and every persist call
\* wrote its file, the rows persisted for each device, in call order, are
\* exactly the samples that arrived for it, each once and in arrival order
\* (whatever expand_dmrs_matrix did).
C2_NoSampleLost ==
  (pc = "done" /\ ~hist.lookup_failed /\ AllPersistsWritten) =>
    \A r \in RNTIs : RowsPersistedFor(persist_log, r) = arrived[r]

\* the same, for the runs in which expand_dmrs_matrix never failed
C2_HoldsWithoutGrowthFailure ==
  (pc = "done" /\ NoGrowthOrLookupFailure /\ AllPersistsWritten) =>
    \A r \in RNTIs : RowsPersistedFor(persist_log, r) = arrived[r]

\* C3: the step after a failed growth persists exactly the filled rows and
\* leaves the same matrix live with num_frames = 0, its capacity and its
\* storage unchanged; the sample that triggered it then becomes row 0.
C3_FailedGrowthResets ==
  [][/\ (pc = "recover" /\ pc' = "relookup") =>
          /\ \E o \in SaveOutcomes :
               persist_log' =
                 persist_log \o save_dmrs_matrix(matrix, heap[matrix], o, pc)
          /\ heap'[matrix].state = "live"
          /\ heap'[matrix].num_frames = 0
          /\ heap'[matrix].capacity = heap[matrix].capacity
          /\ heap'[matrix].dmrs_matrix = heap[matrix].dmrs_matrix
     /\ (pc = "append" /\ hist.recovering /\ pc' = "test") =>
          /\ heap'[matrix].state = "live"
          /\ heap'[matrix].num_frames = 1
          /\ FilledRows(heap'[matrix]) = <<Sample(nf)>>
    ]_vars

\* C4: every matrix the manager points to has num_frames <= capacity.
C4_FilledWithinCapacity ==
  \A k \in Slots :
    SlotAddr(k) # NULL =>
      heap[SlotAddr(k)].num_frames <= heap[SlotAddr(k)].capacity

\* the same, for the runs in which expand_dmrs_matrix never failed
C4_HoldsWithoutGrowthFailure ==
  ~hist.grow_failed => C4_FilledWithinCapacity

\* ------------------------------------------- expand_dmrs_matrix alone
\* expand_dmrs_matrix applied to any matrix: capacity c, k <= c rows of
\* arbitrary values
RowValues == 0..MaxRowValue

GrowInit ==
  /\ pc = "grow"
  /\ go_exit = FALSE
  /\ nof_subframes = -1
  /\ nf = 0
  /\ manager = [init_device_manager(1) EXCEPT !.matrices[1] = 1,
                                              !.num_devices = 1]
  /\ \E r \in RNTIs, c \in 1..MaxGrowCapacity :
       \E k \in 0..c :
         \E rows \in [1..k -> RowValues] :
           /\ detected_rnti = r
           /\ heap = [a \in Addrs |->
                        IF a = 1
                          THEN [init_dmrs_matrix(r, M_sc_rs, c, 1) EXCEPT
                                  !.num_frames = k, !.rows = rows]
                          ELSE UnusedMatrix]
  /\ matrix = 1
  /\ i = 0
  /\ arrived = [r \in RNTIs |-> <<>>]
  /\ persist_log = <<>>
  /\ hist = NoHist
  /\ log = LogLine("none", 0, 0, 0)
  /\ tx = NoTx

\* expand_dmrs_matrix returns true
ApplyExpandOk ==
  /\ pc = "grow"
  /\ heap' = [heap EXCEPT ![matrix] = expand_dmrs_matrix(@, TRUE, NewStore)]
  /\ pc' = "grown"
  /\ UNCHANGED <<tx, go_exit, nof_subframes, nf, manager, detected_rnti, matrix,
                 i, arrived, persist_log, hist, log>>

\* expand_dmrs_matrix returns false
ApplyExpandFails ==
  /\ pc = "grow"
  /\ heap' = [heap EXCEPT ![matrix] = expand_dmrs_matrix(@, FALSE, NewStore)]
  /\ pc' = "not_grown"
  /\ UNCHANGED <<tx, go_exit, nof_subframes, nf, manager, detected_rnti, matrix,
                 i, arrived, persist_log, hist, log>>

GrowNext ==
  \/ ApplyExpandOk
  \/ ApplyExpandFails

GrowSpec == GrowInit /\ [][GrowNext]_vars

\* C5: a successful expand_dmrs_matrix keeps the k filled rows as they were,
\* keeps num_frames = k, doubles the capacity and moves to new storage.
C5_GrowKeepsRowsDoublesCapacity ==
  [][(pc = "grow" /\ pc' = "grown") =>
       /\ heap'[matrix].state = "live"
       /\ heap'[matrix].num_frames = heap[matrix].num_frames
       /\ FilledRows(heap'[matrix]) = FilledRows(heap[matrix])
       /\ heap'[matrix].capacity = 2 * heap[matrix].capacity
       /\ heap'[matrix].dmrs_matrix # heap[matrix].dmrs_matrix
    ]_vars

\* a matrix of three rows, not all equal, has been grown from 3 to 6
C5_Witness ==
  /\ pc = "grown"
  /\ heap[matrix].num_frames = 3
  /\ heap[matrix].capacity = 6
  /\ heap[matrix].rows[1] # heap[matrix].rows[3]

\* C6: a failed expand_dmrs_matrix leaves num_frames, capacity, the storage
\* pointer and the rows as they were.
C6_FailedGrowChangesNothing ==
  [][(pc = "grow" /\ pc' = "not_grown") =>
       /\ heap'[matrix].state = heap[matrix].state
       /\ heap'[matrix].num_frames = heap[matrix].num_frames
       /\ heap'[matrix].capacity = heap[matrix].capacity
       /\ heap'[matrix].dmrs_matrix = heap[matrix].dmrs_matrix
       /\ heap'[matrix].rows = heap[matrix].rows
    ]_vars

\* the growth of a full matrix of two rows has failed
C6_Witness ==
  /\ pc = "not_grown"
  /\ heap[matrix].num_frames = 2
  /\ heap[matrix].capacity = 2
  /\ heap[matrix].rows[1] # heap[matrix].rows[2]

\* ------------------------------------------------ registry and shutdown
\* C7: the manager has at most one slot per rnti, and a lookup for an rnti
\* that has a slot returns that slot's matrix, creates nothing and leaves
\* num_devices unchanged.
C7_OneBufferPerDevice ==
  [][/\ \A r \in RNTIs : Cardinality(SlotsOf(r)') <= 1
     /\ (/\ pc \in {"lookup", "relookup"}
         /\ pc' \notin {pc, "crashed"}
         /\ SlotsOf(detected_rnti) # {}) =>
          /\ manager' = manager
          /\ heap' = heap
          /\ matrix' \in {SlotAddr(k) : k \in SlotsOf(detected_rnti)}
    ]_vars

\* the same, for the runs in which expand_dmrs_matrix never failed
C7_HoldsWithoutGrowthFailure ==
  [][~hist.grow_failed =>
       /\ \A r \in RNTIs : Cardinality(SlotsOf(r)') <= 1
       /\ (/\ pc \in {"lookup", "relookup"}
           /\ pc' \notin {pc, "crashed"}
           /\ SlotsOf(detected_rnti) # {}) =>
            /\ manager' = manager
            /\ heap' = heap
            /\ matrix' \in {SlotAddr(k) : k \in SlotsOf(detected_rnti)}
    ]_vars

\* the persist calls of the shutdown loop made with pointer a
ShutdownCalls(a) ==
  {n \in 1..Len(persist_log) :
     persist_log[n].at = "flush" /\ persist_log[n].matrix = a}

\* C8: when the shutdown loop is over and nothing has been released, every
\* live matrix with num_frames > 0 has received exactly one persist call,
\* carrying exactly its filled rows, and every live matrix with
\* num_frames = 0 has received none.
C8_ShutdownFlushOncePerBuffer ==
  pc = "free" =>
    \A a \in Addrs :
      heap[a].state = "live" =>
        IF heap[a].num_frames > 0
          THEN /\ Cardinality(ShutdownCalls(a)) = 1
               /\ \A n \in ShutdownCalls(a) :
                    persist_log[n].rows = FilledRows(heap[a])
          ELSE ShutdownCalls(a) = {}

\* the same, for the runs in which expand_dmrs_matrix never failed
C8_HoldsWithoutGrowthFailure ==
  ~hist.grow_failed => C8_ShutdownFlushOncePerBuffer

\* C9: once go_exit is set the loop test starts no further iteration, the
\* process does not die before it has finished, and it finishes only after
\* the shutdown loop has visited every slot.
C9_DrainFlushTerminate ==
  [][go_exit =>
       /\ ~(pc = "test" /\ pc' = "recv")
       /\ pc' # "crashed"
       /\ (pc' = "done" => pc = "free" /\ i >= manager.num_devices)
    ]_vars

\* the same, for the runs in which expand_dmrs_matrix never failed
C9_HoldsWithoutGrowthFailure ==
  [][(go_exit /\ ~hist.grow_failed) =>
       /\ ~(pc = "test" /\ pc' = "recv")
       /\ pc' # "crashed"
       /\ (pc' = "done" => pc = "free" /\ i >= manager.num_devices)
    ]_vars

\* the rows are samples of the device, in arrival order
OwnSamplesInOrder(rows, r) ==
  /\ \A n \in 1..Len(rows) :
       \E q \in 1..Len(arrived[r]) : arrived[r][q] = rows[n]
  /\ \A n \in 1..(Len(rows) - 1) : rows[n] < rows[n + 1]

\* C10: the append writes row num_frames of the live matrix of the event's
\* device and nothing else (its earlier rows and every other matrix are
\* unchanged), and
\* afterwards every matrix of the manager holds only samples of its own
\* device, in that device's arrival order.
C10_AppendTouchesOneRow ==
  [][(pc = "append" /\ pc' = "test") =>
       /\ heap[matrix].state = "live"
       /\ heap[matrix].rnti = detected_rnti
       /\ \A a \in Addrs \ {matrix} : heap'[a] = heap[a]
       /\ heap'[matrix].capacity = heap[matrix].capacity
       /\ heap'[matrix].num_frames = heap[matrix].num_frames + 1
       /\ SubSeq(heap'[matrix].rows, 1, heap[matrix].num_frames)
            = FilledRows(heap[matrix])
       /\ heap'[matrix].rows[heap[matrix].num_frames + 1] = Sample(nf)
       /\ \A k \in Slots :
            OwnSamplesInOrder(FilledRows(heap'[SlotAddr(k)]),
                              heap'[SlotAddr(k)].rnti)
    ]_vars

\* the same, for the runs in which expand_dmrs_matrix never failed
C10_HoldsWithoutGrowthFailure ==
  [][(pc = "append" /\ pc' = "test" /\ ~hist.grow_failed) =>
       /\ heap[matrix].state = "live"
       /\ heap[matrix].rnti = detected_rnti
       /\ \A a \in Addrs \ {matrix} : heap'[a] = heap[a]
       /\ heap'[matrix].capacity = heap[matrix].capacity
       /\ heap'[matrix].num_frames = heap[matrix].num_frames + 1
       /\ SubSeq(heap'[matrix].rows, 1, heap[matrix].num_frames)
            = FilledRows(heap[matrix])
       /\ heap'[matrix].rows[heap[matrix].num_frames + 1] = Sample(nf)
       /\ \A k \in Slots :
            OwnSamplesInOrder(FilledRows(heap'[SlotAddr(k)]),
                              heap'[SlotAddr(k)].rnti)
    ]_vars

\* ------------------------------------------------------- persistence
\* the rows as interleaved real / imaginary pairs, all of them
InterleavedPairs(rows) ==
  [j \in 1..(2 * Len(rows)) |->
     IF j % 2 = 1 THEN crealf(rows[(j + 1) \div 2])
                  ELSE cimagf(rows[j \div 2])]

\* the shutdown loop calls save_dmrs_matrix on a live matrix
FlushesLive ==
  /\ pc = "flush"
  /\ i' = i + 1
  /\ SlotAddr(i + 1) # NULL
  /\ heap[SlotAddr(i + 1)].state = "live"

\* C11: save_dmrs_matrix on a matrix with num_frames = 0 reaches the MAT
\* writer with nothing; on a matrix with num_frames > 0 it makes one call,
\* under the file name of the matrix's rnti, whose variable has the shape
\* (num_frames, num_samples) and holds exactly the rows 0..num_frames-1 as
\* real / imaginary pairs.
C11_FlushHandsFilledRows ==
  [][FlushesLive =>
       LET m == heap[SlotAddr(i + 1)]
       IN  IF m.num_frames = 0
             THEN persist_log' = persist_log
             ELSE /\ Len(persist_log') = Len(persist_log) + 1
                  /\ LET call == persist_log'[Len(persist_log')]
                     IN  /\ call.filename = MatFileName(m.rnti)
                         /\ call.var.dims = <<m.num_frames, m.num_samples>>
                         /\ call.var.data = InterleavedPairs(FilledRows(m))
    ]_vars

\* what does hold: nothing for an empty matrix, and for a filled one the
\* file name, the shape and the front half of the pairs
C11_HoldsForFrontHalf ==
  [][FlushesLive =>
       LET m == heap[SlotAddr(i + 1)]
       IN  IF m.num_frames = 0
             THEN persist_log' = persist_log
             ELSE /\ Len(persist_log') = Len(persist_log) + 1
                  /\ LET call == persist_log'[Len(persist_log')]
                     IN  /\ call.filename = MatFileName(m.rnti)
                         /\ call.var.dims = <<m.num_frames, m.num_samples>>
                         /\ call.var.data =
                              SubSeq(InterleavedPairs(FilledRows(m)), 1,
                                     m.num_frames * m.num_samples)
    ]_vars

\* ------------------------------------------------------ failure policy
\* main() is inside the receive loop
InLoop ==
  pc \in {"test", "recv", "lookup", "grow", "recover", "relookup", "append"}

\* C12: once the receive loop has started, no failed allocation, growth,
\* persist call or manager growth ends it: from inside the loop the process
\* stays in the loop, a failed lookup goes straight to the next loop test,
\* and the loop is left only for the shutdown flush, with the subframe limit
\* reached or go_exit set.  If init_device_manager fails the process aborts
\* with no event received.
C12_FailuresDoNotEndLoop ==
  [][/\ InLoop =>
          /\ pc' \in {"test", "recv", "lookup", "grow", "recover",
                      "relookup", "append", "flush"}
          /\ (pc' = "flush" =>
                \/ go_exit
                \/ nof_subframes # -1 /\ nf >= nof_subframes)
          /\ (hist'.lookup_failed /\ ~hist.lookup_failed => pc' = "test")
     /\ pc' = "aborted" =>
          /\ pc = "start"
          /\ nf' = 0
          /\ \A r \in RNTIs : arrived'[r] = <<>>
    ]_vars

\* the same, for the runs in which expand_dmrs_matrix never failed
C12_HoldsWithoutGrowthFailure ==
  [][~hist.grow_failed =>
       /\ InLoop =>
            /\ pc' \in {"test", "recv", "lookup", "grow", "recover",
                        "relookup", "append", "flush"}
            /\ (pc' = "flush" =>
                  \/ go_exit
                  \/ nof_subframes # -1 /\ nf >= nof_subframes)
            /\ (hist'.lookup_failed /\ ~hist.lookup_failed => pc' = "test")
       /\ pc' = "aborted" =>
            /\ pc = "start"
            /\ nf' = 0
            /\ \A r \in RNTIs : arrived'[r] = <<>>
    ]_vars

\* the step in which get_or_create_matrix returns NULL and main() gives the
\* event up
LookupFailsStep == pc \in {"lookup", "relookup"} /\ pc' = "test"

\* C13: whenever an event is dropped because get_or_create_matrix returned
\* NULL, a line is written that names the event's rnti and the subframe
\* count nf.
C13_DroppedEventIsReported ==
  [][LookupFailsStep =>
       /\ log' # log
       /\ log'.nf = nf
       /\ log'.rnti = detected_rnti
    ]_vars

\* what the code does instead: the drop writes nothing at all
C13_DropIsSilent ==
  [][LookupFailsStep => log' = log]_vars

\* the step makes a persist call that fails: Mat_CreateVer, malloc or
\* Mat_VarCreate returns NULL
PersistFailsStep ==
  /\ Len(persist_log') = Len(persist_log) + 1
  /\ persist_log'[Len(persist_log')].outcome = "failed"

\* C14: every persist call that fails is reported: the step writes a line
\* that names the rnti of the matrix whose rows were not stored.  (The
\* program keeps no count of failures; the log is the only place where one
\* could be read off.)
C14_FailedPersistIsReported ==
  [][PersistFailsStep =>
       /\ log' # log
       /\ log'.rnti = persist_log'[Len(persist_log')].rnti
    ]_vars

\* what the code does instead: no persist call, failed or not, writes a line
C14_PersistIsSilent ==
  [][persist_log' # persist_log => log' = log]_vars

\* the files of the output directory after a sequence of persist calls:
\* Mat_CreateVer truncates the file of that name, a completed call leaves
\* the variable it wrote, a failed one leaves the old file or a file
\* without variable
RECURSIVE StoredFiles(_)
StoredFiles(plog) ==
  IF plog = <<>>
    THEN [r \in RNTIs |->
            [state |-> "absent", var |-> Mat_VarCreate(<<0, 0>>, <<>>)]]
    ELSE LET before == StoredFiles(SubSeq(plog, 1, Len(plog) - 1))
             call   == plog[Len(plog)]
         IN  [r \in RNTIs |->
                IF call.filename # MatFileName(r)
                  THEN before[r]
                  ELSE IF call.outcome = "written"
                         THEN [state |-> "written", var |-> call.var]
                         ELSE [before[r] EXCEPT !.state = "undetermined"]]

\* the persist calls made for this rnti
CallsFor(r) == {n \in 1..Len(persist_log) : persist_log[n].rnti = r}

Max(S) == CHOOSE x \in S : \A y \in S : x >= y

\* C15: the file of a persist call is named after the rnti alone, two rntis
\* never share a name, and after a run in which a device was persisted more
\* than once, the last call completing, its file holds exactly the rows of
\* that last call.
C15_FileHoldsLastFlush ==
  /\ \A n \in 1..Len(persist_log) :
       persist_log[n].filename = MatFileName(persist_log[n].rnti)
  /\ \A r1, r2 \in RNTIs : r1 # r2 => MatFileName(r1) # MatFileName(r2)
  /\ pc = "done" =>
       \A r \in RNTIs :
         (/\ Cardinality(CallsFor(r)) > 1
          /\ persist_log[Max(CallsFor(r))].outcome = "written") =>
           LET last == persist_log[Max(CallsFor(r))]
           IN  /\ StoredFiles(persist_log)[r].state = "written"
               /\ StoredFiles(persist_log)[r].var.dims =
                    <<Len(last.rows), last.num_samples>>
               /\ StoredFiles(persist_log)[r].var.data =
                    InterleavedPairs(last.rows)

\* what does hold: the naming, and the file holding the front half of the
\* pairs of the last call
C15_HoldsForFrontHalf ==
  /\ \A n \in 1..Len(persist_log) :
       persist_log[n].filename = MatFileName(persist_log[n].rnti)
  /\ \A r1, r2 \in RNTIs : r1 # r2 => MatFileName(r1) # MatFileName(r2)
  /\ pc = "done" =>
       \A r \in RNTIs :
         (/\ Cardinality(CallsFor(r)) > 1
          /\ persist_log[Max(CallsFor(r))].outcome = "written") =>
           LET last == persist_log[Max(CallsFor(r))]
           IN  /\ StoredFiles(persist_log)[r].state = "written"
               /\ StoredFiles(persist_log)[r].var.dims =
                    <<Len(last.rows), last.num_samples>>
               /\ StoredFiles(persist_log)[r].var.data =
                    SubSeq(InterleavedPairs(last.rows), 1,
                           Len(last.rows) * last.num_samples)

\* main() is on the recovery path of an event and the save_dmrs_matrix of
\* that recovery has failed
RecoveryFlushFailed ==
  /\ hist.recovering
  /\ persist_log # <<>>
  /\ persist_log[Len(persist_log)].at = "recover"
  /\ persist_log[Len(persist_log)].outcome = "failed"

\* C16: when the save_dmrs_matrix of the recovery path (after a failed
\* expand_dmrs_matrix) fails, a line naming the device is written, no row
\* is appended for the event that triggered the recovery, and the event ends
\* with no filled matrix left for the device.
C16_FailedRecoveryFlushDropsEvent ==
  [][/\ (pc = "recover" /\ PersistFailsStep) =>
          /\ log' # log
          /\ log'.rnti = detected_rnti
     /\ (RecoveryFlushFailed /\ pc = "append") =>
          \A a \in Addrs : heap'[a].rows = heap[a].rows
     /\ (RecoveryFlushFailed /\ pc' = "test") =>
          \A a \in Addrs :
            (heap'[a].state = "live" /\ heap'[a].rnti = detected_rnti) =>
              heap'[a].num_frames = 0
    ]_vars

\* what the code does instead: the recovery writes no line, and whether its
\* save_dmrs_matrix failed or not makes no difference to what follows
C16_RecoveryIgnoresFlushOutcome ==
  [][/\ pc = "recover" => log' = log /\ pc' \in {"recover", "relookup",
                                                 "crashed"}
     /\ (RecoveryFlushFailed /\ pc = "append" /\ pc' = "test") =>
          /\ heap'[matrix].num_frames = heap[matrix].num_frames + 1
          /\ log'.kind = "dmrs_ok"
    ]_vars

\* the failed recovery flush is followed by the append of the event
C16_AppendAfterFailedFlush == RecoveryFlushFailed /\ pc = "append"

\* ------------------------------------------------------------ manager
\* the registered matrices, slot by slot
Entries(mgr) == [k \in 1..mgr.num_devices |-> mgr.matrices[k]]

\* C17: when get_or_create_matrix fails for an rnti that has no matrix, the
\* manager is as it was before the call: num_devices, capacity, the slots
\* and the matrices themselves, whether it was expand_device_manager or
\* init_dmrs_matrix that failed.
C17_FailedLookupLeavesManager ==
  [][LookupFailsStep =>
       /\ manager'.num_devices = manager.num_devices
       /\ manager'.capacity = manager.capacity
       /\ manager'.matrices = manager.matrices
       /\ heap' = heap
    ]_vars

\* what does hold: the registered matrices and their count are untouched;
\* the capacity is as before or, when the manager was full, doubled, the
\* added slots being empty
C17_HoldsUpToCapacity ==
  [][LookupFailsStep =>
       /\ manager'.num_devices = manager.num_devices
       /\ Entries(manager') = Entries(manager)
       /\ heap' = heap
       /\ \/ manager' = manager
          \/ /\ manager.num_devices >= manager.capacity
             /\ manager'.capacity = 2 * manager.capacity
             /\ \A k \in (manager.capacity + 1)..manager'.capacity :
                  manager'.matrices[k] = NULL
    ]_vars

\* ------------------------------------- save_dmrs_matrix on its own
\* any live matrix: capacity 1..MaxGrowCapacity, 0..capacity rows filled
SaveInit ==
  /\ pc = "save"
  /\ go_exit = FALSE
  /\ nof_subframes = -1
  /\ nf = 0
  /\ manager = [init_device_manager(1) EXCEPT !.matrices[1] = 1,
                                              !.num_devices = 1]
  /\ \E r \in RNTIs, c \in 1..MaxGrowCapacity :
       \E k \in 0..c :
         \E rows \in [1..k -> RowValues] :
           /\ detected_rnti = r
           /\ heap = [a \in Addrs |->
                        IF a = 1
                          THEN [init_dmrs_matrix(r, M_sc_rs, c, 1) EXCEPT
                                  !.num_frames = k, !.rows = rows]
                          ELSE UnusedMatrix]
  /\ matrix = 1
  /\ i = 0
  /\ arrived = [r \in RNTIs |-> <<>>]
  /\ persist_log = <<>>
  /\ hist = NoHist
  /\ log = LogLine("none", 0, 0, 0)
  /\ tx = NoTx

\* the call also sets num_frames to 0
ApplySave_resets ==
  /\ pc = "save"
  /\ \E o \in SaveOutcomes :
       persist_log' =
         persist_log \o save_dmrs_matrix(matrix, heap[matrix], o, pc)
  /\ heap' = [heap EXCEPT ![matrix].num_frames = 0]
  /\ pc' = "saved"
  /\ UNCHANGED <<tx, go_exit, nof_subframes, nf, manager, detected_rnti, matrix,
                 i, arrived, hist, log>>

\* save_dmrs_matrix(output_dir, matrix): it only reads through matrix
ApplySave ==
  /\ pc = "save"
  /\ \E o \in SaveOutcomes :
       persist_log' =
         persist_log \o save_dmrs_matrix(matrix, heap[matrix], o, pc)
  /\ pc' = "saved"
  /\ UNCHANGED <<tx, go_exit, nof_subframes, nf, manager, heap, detected_rnti,
                 matrix, i, arrived, hist, log>>

SaveNext == ApplySave

SaveSpec == SaveInit /\ [][SaveNext]_vars

\* C18: save_dmrs_matrix leaves the matrix it is given as it was: rnti,
\* num_frames, num_samples, capacity, the storage pointer and every row,
\* whether the call completes, fails or has nothing to write.
C18_SaveLeavesMatrix ==
  [][(pc = "save" /\ pc' = "saved") =>
       /\ heap'[matrix].state = heap[matrix].state
       /\ heap'[matrix].rnti = heap[matrix].rnti
       /\ heap'[matrix].num_frames = heap[matrix].num_frames
       /\ heap'[matrix].num_samples = heap[matrix].num_samples
       /\ heap'[matrix].capacity = heap[matrix].capacity
       /\ heap'[matrix].dmrs_matrix = heap[matrix].dmrs_matrix
       /\ heap'[matrix].rows = heap[matrix].rows
    ]_vars

\* a matrix of capacity 3 with two different rows has been through a
\* persist call that failed
C18_Witness ==
  /\ pc = "saved"
  /\ Len(persist_log) = 1
  /\ persist_log[1].outcome = "failed"
  /\ heap[matrix].num_frames = 2
  /\ heap[matrix].capacity = 3
  /\ heap[matrix].rows[1] # heap[matrix].rows[2]

\* C19: the manager always has 0 <= num_devices <= capacity, and whenever
\* a matrix is registered it goes into the first free slot, which lies
\* inside the slot array as it is after any growth of that call.
C19_CountWithinCapacity ==
  /\ [](/\ 0 <= manager.num_devices
        /\ manager.num_devices <= manager.capacity
        /\ Len(manager.matrices) = manager.capacity)
  /\ [][manager'.num_devices > manager.num_devices =>
          /\ manager'.num_devices = manager.num_devices + 1
          /\ manager.num_devices + 1 <= manager'.capacity
          /\ manager'.matrices[manager.num_devices + 1] = matrix'
          /\ matrix' # NULL
       ]_vars

\* the manager was full, has been grown once and the matrix of one more
\* device has been registered in the first added slot
C19_Witness ==
  /\ manager.capacity = 2 * InitialDeviceCapacity
  /\ manager.num_devices = InitialDeviceCapacity + 1
  /\ manager.matrices[InitialDeviceCapacity + 1] # NULL

\* -------------------------------- expand_device_manager on its own
\* the slot arrays of num slots in a manager of capacity cap: distinct
\* matrices in the first num slots, the rest empty
SlotArrays(cap, num) ==
  {f \in [1..cap -> {NULL} \cup Addrs] :
     /\ \A k \in 1..cap : (f[k] # NULL) <=> (k <= num)
     /\ \A j, k \in 1..num : j # k => f[j] # f[k]}

\* any manager: capacity 1..MaxGrowCapacity, 0..capacity devices
ExpandManagerInit ==
  /\ pc = "expand"
  /\ go_exit = FALSE
  /\ nof_subframes = -1
  /\ nf = 0
  /\ \E cap \in 1..MaxGrowCapacity :
       \E num \in 0..cap :
         \E f \in SlotArrays(cap, num) :
           /\ manager = [matrices |-> f, num_devices |-> num,
                         capacity |-> cap]
           /\ heap = [a \in Addrs |->
                        IF \E k \in 1..num : f[k] = a
                          THEN init_dmrs_matrix(a, M_sc_rs,
                                                InitialMatrixCapacity, a)
                          ELSE UnusedMatrix]
  /\ detected_rnti = 0
  /\ matrix = NULL
  /\ i = 0
  /\ arrived = [r \in RNTIs |-> <<>>]
  /\ persist_log = <<>>
  /\ hist = NoHist
  /\ log = LogLine("none", 0, 0, 0)
  /\ tx = NoTx

\* expand_device_manager returns true
ApplyExpandManagerOk ==
  /\ pc = "expand"
  /\ manager' = expand_device_manager(manager, TRUE)
  /\ pc' = "expanded"
  /\ UNCHANGED <<tx, go_exit, nof_subframes, nf, heap, detected_rnti, matrix, i,
                 arrived, persist_log, hist, log>>

\* expand_device_manager returns false
ApplyExpandManagerFails ==
  /\ pc = "expand"
  /\ manager' = expand_device_manager(manager, FALSE)
  /\ pc' = "not_expanded"
  /\ UNCHANGED <<tx, go_exit, nof_subframes, nf, heap, detected_rnti, matrix, i,
                 arrived, persist_log, hist, log>>

ExpandManagerNext ==
  \/ ApplyExpandManagerOk
  \/ ApplyExpandManagerFails

ExpandManagerSpec == ExpandManagerInit /\ [][ExpandManagerNext]_vars

\* C20: a successful expand_device_manager doubles the capacity, keeps
\* num_devices and the registered matrices in their slots and leaves every
\* added slot empty; a failed one leaves capacity, num_devices and all slots
\* as they were.  No matrix is touched either way.
C20_ExpandManagerAllOrNothing ==
  [][/\ (pc = "expand" /\ pc' = "expanded") =>
          /\ manager'.capacity = 2 * manager.capacity
          /\ Len(manager'.matrices) = manager'.capacity
          /\ manager'.num_devices = manager.num_devices
          /\ \A k \in 1..manager.capacity :
               manager'.matrices[k] = manager.matrices[k]
          /\ \A k \in (manager.capacity + 1)..manager'.capacity :
               manager'.matrices[k] = NULL
          /\ heap' = heap
     /\ (pc = "expand" /\ pc' = "not_expanded") =>
          /\ manager' = manager
          /\ heap' = heap
    ]_vars

\* a full manager of three devices has been grown from 3 to 6 slots
C20_Witness ==
  /\ pc = "expanded"
  /\ manager.num_devices = 3
  /\ manager.capacity = 6
  /\ manager.matrices[3] # NULL
  /\ manager.matrices[4] = NULL

\* the growth of a full manager of two devices has failed
C20_WitnessFailed ==
  /\ pc = "not_expanded"
  /\ manager.num_devices = 2
  /\ manager.capacity = 2

\* ------------------------------------------------- capacity and storage
\* the smallest c * 2^k that is at least n
RECURSIVE SmallestDoubling(_, _)
SmallestDoubling(c, n) ==
  IF c >= n THEN c ELSE SmallestDoubling(2 * c, n)

\* main() calls expand_dmrs_matrix in this step
GrowAttempted ==
  /\ pc = "grow"
  /\ pc' \in {"append", "recover"}
  /\ heap[matrix].num_frames >= heap[matrix].capacity

\* the capacity of an object that stays allocated is kept or doubled
CapacityKeptOrDoubled ==
  \A a \in Addrs :
    (heap[a].state = "live" /\ heap'[a].state = "live") =>
      heap'[a].capacity \in {heap[a].capacity, 2 * heap[a].capacity}

\* C21: the capacity of a matrix changes only by doubling, and
\* expand_dmrs_matrix is called only for an event whose matrix has
\* num_frames = capacity; while no growth has failed, a matrix created with
\* capacity InitialMatrixCapacity that holds n rows after an event has the
\* smallest capacity InitialMatrixCapacity * 2^k that is at least n.
C21_CapacityOnlyDoubles ==
  [][/\ CapacityKeptOrDoubled
     /\ GrowAttempted => heap[matrix].num_frames = heap[matrix].capacity
     /\ (~hist'.grow_failed /\ BetweenEvents') =>
          \A a \in Addrs :
            heap'[a].state = "live" =>
              heap'[a].capacity =
                SmallestDoubling(InitialMatrixCapacity, heap'[a].num_frames)
    ]_vars

\* the same, for the runs in which expand_dmrs_matrix never failed
C21_HoldsWithoutGrowthFailure ==
  [][~hist'.grow_failed =>
       /\ CapacityKeptOrDoubled
       /\ GrowAttempted => heap[matrix].num_frames = heap[matrix].capacity
       /\ \A a \in Addrs :
            (BetweenEvents' /\ heap'[a].state = "live") =>
              heap'[a].capacity =
                SmallestDoubling(InitialMatrixCapacity, heap'[a].num_frames)
    ]_vars

\* a matrix has been grown twice
C21_GrownTwice ==
  \E a \in Addrs :
    /\ heap[a].state = "live"
    /\ ~hist.grow_failed
    /\ heap[a].capacity = 4 * InitialMatrixCapacity

\* the values a matrix holds, and the values the memcpy of
\* expand_dmrs_matrix copies (a uint32_t product)
FilledValues(m) == m.num_frames * m.num_samples

CopiedValues(m) == Mul32(m.num_frames, m.num_samples)

\* the storage of a matrix is large enough for what was written to it
StorageHolds(m) == m.alloc >= FilledValues(m)

\* one device sending without end: a matrix as init_dmrs_matrix makes it,
\* with any row width
StorageInit ==
  /\ pc = "fill"
  /\ go_exit = FALSE
  /\ nof_subframes = -1
  /\ nf = 0
  /\ manager = [init_device_manager(1) EXCEPT !.matrices[1] = 1,
                                              !.num_devices = 1]
  /\ \E r \in RNTIs, c \in 1..MaxGrowCapacity, w \in 1..MaxSamples :
       /\ detected_rnti = r
       /\ heap = [a \in Addrs |->
                    IF a = 1 THEN init_dmrs_matrix(r, w, c, 1)
                             ELSE UnusedMatrix]
  /\ matrix = 1
  /\ i = 0
  /\ arrived = [r \in RNTIs |-> <<>>]
  /\ persist_log = <<>>
  /\ hist = NoHist
  /\ log = LogLine("none", 0, 0, 0)
  /\ tx = NoTx

\* the next event of the device: expand_dmrs_matrix (succeeding) when the
\* matrix is full, then the memcpy of the row and num_frames++
FillGrow ==
  /\ pc = "fill"
  /\ StorageHolds(heap[matrix])
  /\ heap[matrix].num_frames >= heap[matrix].capacity
  /\ heap' = [heap EXCEPT ![matrix] = expand_dmrs_matrix(@, TRUE, NewStore)]
  /\ pc' = "fill_append"
  /\ UNCHANGED <<tx, go_exit, nof_subframes, nf, manager, detected_rnti, matrix,
                 i, arrived, persist_log, hist, log>>

FillNotFull ==
  /\ pc = "fill"
  /\ StorageHolds(heap[matrix])
  /\ heap[matrix].num_frames < heap[matrix].capacity
  /\ pc' = "fill_append"
  /\ UNCHANGED <<tx, go_exit, nof_subframes, nf, manager, heap, detected_rnti,
                 matrix, i, arrived, persist_log, hist, log>>

FillAppend ==
  /\ pc = "fill_append"
  /\ StorageHolds(heap[matrix])
  /\ heap[matrix].num_frames < Uint32Modulus
  /\ heap' = [heap EXCEPT ![matrix] = AppendRow(@, 0)]
  /\ pc' = "fill"
  /\ UNCHANGED <<tx, go_exit, nof_subframes, nf, manager, detected_rnti, matrix,
                 i, arrived, persist_log, hist, log>>

StorageNext ==
  \/ FillGrow
  \/ FillNotFull
  \/ FillAppend

StorageSpec == StorageInit /\ [][StorageNext]_vars

\* C22: the storage of a matrix always holds at least num_frames *
\* num_samples values: what init_dmrs_matrix and expand_dmrs_matrix ask
\* srsran_vec_cf_malloc for is never less than what expand_dmrs_matrix
\* copies into it and what the append then writes.
C22_StorageHoldsFilledRows ==
  /\ StorageHolds(heap[matrix])
  /\ pc = "fill_append" =>
       /\ heap[matrix].alloc >= CopiedValues(heap[matrix])
       /\ heap[matrix].alloc >=
            FilledValues(heap[matrix]) + heap[matrix].num_samples

\* what does hold: the same, as long as twice the values held stay below
\* the modulus of uint32_t
C22_HoldsBelowWrap ==
  2 * FilledValues(heap[matrix]) < Uint32Modulus =>
    C22_StorageHoldsFilledRows

\* in the short runs of main() in which expand_dmrs_matrix never failed,
\* every allocated matrix has storage for its rows
C22_HoldsInSmallRuns ==
  ~hist.grow_failed =>
    \A a \in Addrs : heap[a].state = "live" => StorageHolds(heap[a])

\* ------------------------------------------------- identity of a matrix
\* the matrices this step allocates
Created == {a \in Addrs : heap[a].state # "live" /\ heap'[a].state = "live"}

\* a matrix is allocated only for an event whose rnti has no slot in the
\* manager, with that rnti and the row width of the event
CreatedForUnseenDevice ==
  \A a \in Created :
    /\ pc \in {"lookup", "relookup"}
    /\ SlotsOf(detected_rnti) = {}
    /\ heap'[a].rnti = detected_rnti
    /\ heap'[a].num_samples = M_sc_rs

\* a matrix that stays allocated keeps its rnti and its row width
IdentityKept ==
  \A a \in Addrs :
    (heap[a].state = "live" /\ heap'[a].state = "live") =>
      /\ heap'[a].rnti = heap[a].rnti
      /\ heap'[a].num_samples = heap[a].num_samples

\* C23: a matrix is created only by an event of an rnti the manager has no
\* matrix for, with num_samples set to the width of that event, and from
\* then on its rnti and num_samples never change, whatever is appended and
\* however often it is grown.
C23_CreatedOnceIdentityFixed ==
  [][CreatedForUnseenDevice /\ IdentityKept]_vars

\* the same, for the runs in which expand_dmrs_matrix never failed
C23_HoldsWithoutGrowthFailure ==
  [][~hist.grow_failed => CreatedForUnseenDevice /\ IdentityKept]_vars

\* --------------------------------------------------- flush before free
\* the matrices free_dmrs_matrix is called on in this step
FreedByStep ==
  IF pc = "recover" /\ pc' = "relookup"
    THEN {matrix}
    ELSE IF pc = "free" /\ pc' = "done"
           THEN {SlotAddr(k) : k \in Slots} \ {NULL}
           ELSE {}

\* a persist call has been made on matrix a with the rows it holds now
FlushedAsIs(a, plog) ==
  \E n \in 1..Len(plog) :
    /\ plog[n].matrix = a
    /\ plog[n].rows = FilledRows(heap[a])

\* C24: whenever free_dmrs_matrix is called on a matrix with num_frames > 0,
\* on the recovery path and at shutdown alike, a persist call has been made
\* on that matrix before and it carried all the rows the matrix holds at
\* the free: nothing was appended in between.
C24_FlushPrecedesFree ==
  [][\A a \in FreedByStep :
       heap[a].num_frames > 0 => FlushedAsIs(a, persist_log')
    ]_vars

\* the same, for the runs in which expand_dmrs_matrix never failed
C24_HoldsWithoutGrowthFailure ==
  [][~hist.grow_failed =>
       \A a \in FreedByStep :
         heap[a].num_frames > 0 => FlushedAsIs(a, persist_log')
    ]_vars

\* without a failed growth, two matrices with rows have been flushed and
\* freed at shutdown
C24_TwoFlushedAndFreed ==
  /\ pc = "done"
  /\ ~hist.grow_failed
  /\ Len(persist_log) = 2
  /\ \A a \in 1..2 : heap[a].state = "freed" /\ heap[a].num_frames > 0

\* ------------------------------------------------- failed subframes
\* the iteration ends in the else branch of srsran_pscch_decode or of
\* srsran_chest_sl_pssch_get_dmrs
NoEventStep == pc = "recv" /\ pc' = "test"

MidEvent == pc \in {"lookup", "grow", "recover", "relookup", "append"}

C26_InterruptedEventCompleted ==
  [][(MidEvent /\ go_exit /\ pc' = "test" /\ ~hist'.lookup_failed
      /\ ~hist.grow_failed) =>
       /\ heap'[matrix].rows[heap'[matrix].num_frames] = Sample(nf)
       /\ heap'[matrix].rnti = detected_rnti
    ]_vars

\* ------------------------------------------------------ use after free
\* C27: every slot of the manager points to an allocated matrix, never to a
\* freed one, no step of main() reads, writes or frees a freed matrix, and
\* no matrix sits in two slots (so none is freed twice at shutdown).
C27_NoUseAfterFree ==
  /\ \A k \in Slots : SlotAddr(k) # NULL => heap[SlotAddr(k)].state = "live"
  /\ ~TouchesFreed
  /\ \A j, k \in Slots : (j # k /\ SlotAddr(j) # NULL) =>
                            SlotAddr(j) # SlotAddr(k)
  /\ pc # "crashed"

\* the same, for the runs in which expand_dmrs_matrix never failed
C27_HoldsWithoutGrowthFailure ==
  ~hist.grow_failed => C27_NoUseAfterFree

\* --------------------------------------------------- count of devices
\* the rntis that have sent an event so far
SeenDevices == {r \in RNTIs : arrived[r] # <<>>}

\* num_devices as the loop may change it in one step
CountStep ==
  /\ manager'.num_devices >= manager.num_devices
  /\ manager'.num_devices # manager.num_devices =>
       /\ manager'.num_devices = manager.num_devices + 1
       /\ pc \in {"lookup", "relookup"}
       /\ SlotsOf(detected_rnti) = {}
       /\ heap'[matrix'].state = "live"
       /\ heap'[matrix'].rnti = detected_rnti

\* C28: while the loop runs num_devices never decreases; it grows by one
\* exactly when an event of an rnti without slot gets its matrix created,
\* and by nothing else (no append, no growth, no recovery removes or adds a
\* slot); when no creation has failed, after each event num_devices is the
\* number of distinct rntis seen so far.
C28_CountIsDevicesSeen ==
  [][(InLoop /\ pc' # "crashed") =>
       /\ CountStep
       /\ (pc' = "test" /\ ~hist'.lookup_failed) =>
            manager'.num_devices = Cardinality(SeenDevices')
    ]_vars

\* the same, for the runs in which expand_dmrs_matrix never failed
C28_HoldsWithoutGrowthFailure ==
  [][(InLoop /\ pc' # "crashed" /\ ~hist.grow_failed) =>
       /\ CountStep
       /\ (pc' = "test" /\ ~hist'.lookup_failed) =>
            manager'.num_devices = Cardinality(SeenDevices')
    ]_vars

\* --------------------------------------------------- the subframe limit
\* what a step of main() may do under the loop's exit conditions
LoopRunsToLimit ==
  /\ (pc = "test" /\ pc' = "flush" /\ ~go_exit) =>
       nof_subframes >= 0 /\ nf = nof_subframes
  /\ (pc = "test" /\ pc' = "recv") =>
       ~go_exit /\ (nof_subframes = -1 \/ nf < nof_subframes)
  /\ (InLoop /\ pc # "test" /\ pc' = "test") => nf' = nf + 1
  /\ (InLoop /\ pc' # "test") => nf' = nf
  /\ pc' # "crashed"
  /\ pc' = "done" => pc = "free" /\ i >= manager.num_devices

\* C29: with a limit n >= 0 and no interrupt the loop is left exactly when
\* nf = n, nf advancing by one in every iteration whether or not it decoded
\* anything, and the process then goes through the shutdown loop to its
\* end; with the limit -1 the loop is left only with go_exit set.
C29_LoopRunsExactlyLimit ==
  [][LoopRunsToLimit]_vars

\* the same, for the runs in which expand_dmrs_matrix never failed
C29_HoldsWithoutGrowthFailure ==
  [][~hist.grow_failed => LoopRunsToLimit]_vars

\* a run with limit 3 and no interrupt has ended after three iterations
C29_LimitReached ==
  /\ pc = "done"
  /\ ~go_exit
  /\ ~hist.grow_failed
  /\ nof_subframes = 3
  /\ nf = 3

\* ============================================ the transmit driver
\* (src/lib/examples/LTE-V_tx.c, second program: main and sig_int_handler)
TxLimits == {-1} \cup (0..MaxTxSubframes)

\* main() of the transmit driver has reached its loop: everything is
\* initialised, nf = 0, pssch_cfg.sf_idx = 0
TxInit ==
  /\ pc = "tx_test"
  /\ go_exit = FALSE
  /\ nof_subframes \in TxLimits
  /\ nf = 0
  /\ manager = NoManager
  /\ heap = [a \in Addrs |-> UnusedMatrix]
  /\ detected_rnti = 0
  /\ matrix = NULL
  /\ i = 0
  /\ arrived = [r \in RNTIs |-> <<>>]
  /\ persist_log = <<>>
  /\ hist = NoHist
  /\ log = LogLine("start", 0, 0, 0)
  /\ tx = [sf_idx |-> 0, handed |-> 0, sent |-> 0, released |-> FALSE]

TxFrame ==
  UNCHANGED <<manager, heap, detected_rnti, matrix, i, arrived, persist_log,
              hist>>

\* sig_int_handler of the transmit driver
tx_sig_int_handler ==
  /\ pc \in {"tx_test", "tx_body", "tx_end"}
  /\ go_exit' = TRUE
  /\ UNCHANGED <<pc, nof_subframes, nf, log, tx>>
  /\ TxFrame

\* the while condition
TxLoopTest ==
  /\ pc = "tx_test"
  /\ pc' = IF LoopCond THEN "tx_body" ELSE "tx_end"
  /\ UNCHANGED <<go_exit, nof_subframes, nf, log, tx>>
  /\ TxFrame

\* srsran_pscch_encode fails: ERROR and break
TxPscchEncodeFails ==
  /\ pc = "tx_body"
  /\ log' = LogLine("pscch_encode_error", nf, 0, 0)
  /\ pc' = "tx_end"
  /\ UNCHANGED <<go_exit, nof_subframes, nf, tx>>
  /\ TxFrame

\* srsran_pssch_encode fails: ERROR and break
TxPsschEncodeFails ==
  /\ pc = "tx_body"
  /\ log' = LogLine("pssch_encode_error", nf, 0, 0)
  /\ pc' = "tx_end"
  /\ UNCHANGED <<go_exit, nof_subframes, nf, tx>>
  /\ TxFrame

\* both encodes succeed: srsran_rf_send (its return value is not looked
\* at), the log line, sf_idx, usleep, nf++
TxSend ==
  /\ pc = "tx_body"
  /\ nf < MaxTxSubframes
  /\ \E ok \in BOOLEAN :
       tx' = [tx EXCEPT !.handed = @ + 1,
                        !.sent = IF ok THEN @ + 1 ELSE @,
                        !.sf_idx = (@ + 1) % 10]
  /\ log' = LogLine("tx_ok", nf, 0, 0)
  /\ nf' = nf + 1
  /\ pc' = "tx_test"
  /\ UNCHANGED <<go_exit, nof_subframes>>
  /\ TxFrame

\* after the loop: the end line, the frees, exit(0)
TxFinish ==
  /\ pc = "tx_end"
  /\ log' = LogLine("end", nf, 0, 0)
  /\ tx' = [tx EXCEPT !.released = TRUE]
  /\ pc' = "tx_done"
  /\ UNCHANGED <<go_exit, nof_subframes, nf>>
  /\ TxFrame

TxNext ==
  \/ tx_sig_int_handler
  \/ TxLoopTest
  \/ TxPscchEncodeFails
  \/ TxPsschEncodeFails
  \/ TxSend
  \/ TxFinish

TxSpec == TxInit /\ [][TxNext]_vars

\* the loop of the transmit driver, but for the count of sent subframes
TxLoopDiscipline ==
  /\ [](/\ nof_subframes # -1 => nf <= nof_subframes
        /\ tx.sf_idx = nf % 10
        /\ tx.sf_idx \in 0..9
        /\ pc = "tx_done" => tx.released)
  /\ [][/\ (pc = "tx_test" /\ go_exit) => pc' \in {"tx_test", "tx_end"}
        /\ (pc = "tx_test" /\ pc' = "tx_end") =>
             go_exit \/ (nof_subframes # -1 /\ nf >= nof_subframes)
        /\ (pc = "tx_body" /\ pc' = "tx_end") =>
             /\ nf' = nf
             /\ tx' = tx
             /\ log'.kind \in {"pscch_encode_error", "pssch_encode_error"}
        /\ pc = "tx_end" => pc' \in {"tx_end", "tx_done"}
        /\ nf' # nf => nf' = nf + 1 /\ tx'.handed = tx.handed + 1
       ]_vars

\* C30: the transmit loop sends at most nof_subframes subframes (no limit
\* with -1), is left at once when go_exit is set at the loop test or when
\* an encode fails, nf counts exactly the subframes that were sent in full,
\* pssch_cfg.sf_idx is nf modulo 10, and every way out of the loop leads
\* through the cleanup to exit.
C30_TxLoopCountsSent ==
  TxLoopDiscipline /\ [](nf = tx.sent)

\* what does hold: the same with nf counting the subframes handed to
\* srsran_rf_send
C30_HoldsForHandedSubframes ==
  TxLoopDiscipline /\ [](nf = tx.handed)

\* eleven subframes have been sent and the driver has left the loop on a
\* failed encode and cleaned up
C30_ElevenSentThenEncodeError ==
  /\ pc = "tx_done"
  /\ nf = 11
  /\ tx.sf_idx = 1
  /\ log.kind = "end"
  /\ nof_subframes = -1
  /\ ~go_exit
  /\ tx.released

====
